---- MODULE Spec2Model ----
(***************************************************************************)
(* Bencode (BEP-3) encoder and decoder of vinhtq115/torrent-tool:          *)
(* src/Bencode/Decoder.py (BencodeDecoder) and src/Bencode/Encoder.py      *)
(* (BencodeEncoder).  Byte strings are sequences of byte codes, Python     *)
(* values are tagged records, and every method is an operator that         *)
(* computes what the Python code computes, including the exception it      *)
(* raises.  Indices in the operators are Python's (0-based).               *)
(***************************************************************************)
EXTENDS Integers, Sequences, FiniteSets, TLC

VARIABLES pc, op, inp, obj, dec, enc, stdout, encoding

vars == <<pc, op, inp, obj, dec, enc, stdout, encoding>>

(***************************************************************************)
(* Byte codes the decoder compares with (Decoder.py lines 22-29).          *)
(***************************************************************************)
char_i == 105
char_l == 108
char_d == 100
char_e == 101
char_0 == 48
char_9 == 57
char_colon == 58
char_hyphen == 45

(***************************************************************************)
(* Python's bytes operations.                                              *)
(***************************************************************************)
Min(a, b) == IF a < b THEN a ELSE b
Max(a, b) == IF a > b THEN a ELSE b

\* s[a:b], a and b as Python clamps them (a negative bound counts from the end).
Slice(s, a, b) ==
  LET n  == Len(s)
      lo == IF a < 0 THEN Max(n + a, 0) ELSE Min(a, n)
      hi == IF b < 0 THEN Max(n + b, 0) ELSE Min(b, n)
  IN  IF lo >= hi THEN <<>> ELSE SubSeq(s, lo + 1, hi)

\* s[a:]
SliceFrom(s, a) == Slice(s, a, Len(s))

\* s.find(c, start): the least index >= start holding c, or -1.
Find(s, c, start) ==
  LET hits == {k \in Max(start, 0)..(Len(s) - 1) : s[k + 1] = c}
  IN  IF hits = {} THEN -1 ELSE CHOOSE k \in hits : \A j \in hits : k <= j

\* whether s[k] is a valid index expression (k >= 0 in every use here)
InRange(s, k) == k >= 0 /\ k < Len(s)

\* s[k] for an index in range
At(s, k) == s[k + 1]

IsDigit(b) == b >= 48 /\ b <= 57
IsSpace(b) == b \in {9, 10, 11, 12, 13, 32}

RECURSIVE StripLeft(_)
StripLeft(s) ==
  IF s # <<>> /\ IsSpace(Head(s)) THEN StripLeft(Tail(s)) ELSE s

RECURSIVE StripRight(_)
StripRight(s) ==
  IF s # <<>> /\ IsSpace(s[Len(s)]) THEN StripRight(SubSeq(s, 1, Len(s) - 1)) ELSE s

\* digits and single underscores between digits, as int() accepts them
DigitRunOk(s) ==
  /\ s # <<>>
  /\ \A k \in 1..Len(s) : IsDigit(s[k]) \/ s[k] = 95
  /\ IsDigit(s[1]) /\ IsDigit(s[Len(s)])
  /\ \A k \in 1..(Len(s) - 1) : ~(s[k] = 95 /\ s[k + 1] = 95)

RECURSIVE DigitRunValue(_, _)
DigitRunValue(s, acc) ==
  IF s = <<>> THEN acc
  ELSE IF Head(s) = 95 THEN DigitRunValue(Tail(s), acc)
  ELSE DigitRunValue(Tail(s), 10 * acc + (Head(s) - 48))

\* int(s) for a bytes argument: [ok |-> FALSE] stands for ValueError.
PyInt(s) ==
  LET t    == StripRight(StripLeft(s))
      sgn  == t # <<>> /\ t[1] \in {43, 45}
      body == IF sgn THEN Tail(t) ELSE t
  IN  IF DigitRunOk(body)
      THEN [ok |-> TRUE,
            n  |-> IF sgn /\ t[1] = 45 THEN 0 - DigitRunValue(body, 0)
                   ELSE DigitRunValue(body, 0)]
      ELSE [ok |-> FALSE, n |-> 0]

\* bytes comparison a < b: lexicographic on byte codes, a proper prefix is smaller
RECURSIVE BytesLess(_, _)
BytesLess(a, b) ==
  IF b = <<>> THEN FALSE
  ELSE IF a = <<>> THEN TRUE
  ELSE IF Head(a) # Head(b) THEN Head(a) < Head(b)
  ELSE BytesLess(Tail(a), Tail(b))

(***************************************************************************)
(* Python values.  k is the value's type; n an int's value; s the bytes    *)
(* of a bytes object or the code points of a str; xs the elements of a     *)
(* list or the values of a dict; ks the keys of a dict, in insertion       *)
(* order.  "OrderedDict" is collections.OrderedDict and "NoneType" stands  *)
(* for the types neither the encoder nor the decoder knows.                *)
(***************************************************************************)
MkVal(k, n, s, ks, xs) == [k |-> k, n |-> n, s |-> s, ks |-> ks, xs |-> xs]
IntVal(n) == MkVal("int", n, <<>>, <<>>, <<>>)
BytesVal(s) == MkVal("bytes", 0, s, <<>>, <<>>)
StrVal(s) == MkVal("str", 0, s, <<>>, <<>>)
ListVal(xs) == MkVal("list", 0, <<>>, <<>>, xs)
DictVal(ks, xs) == MkVal("dict", 0, <<>>, ks, xs)
OrderedDictVal(ks, xs) == MkVal("OrderedDict", 0, <<>>, ks, xs)
NoneVal == MkVal("NoneType", 0, <<>>, <<>>, <<>>)
\* no value at all (the slot of a call that has not returned)
NoValue == MkVal("-", 0, <<>>, <<>>, <<>>)

(***************************************************************************)
(* What a decoder call ends with.  st is "ok" for a returned value and     *)
(* otherwise the exception's class; val is the returned value.  The other  *)
(* fields record the run of decode_list / decode_dictionary: idx is the    *)
(* cursor when the call ended, keys the list `keys` of decode_dictionary,  *)
(* parsed whether its loop ran to its end, and failed the kinds of nested  *)
(* decode attempts that raised DecodeError inside a call that went on.     *)
(***************************************************************************)
DecRet(st, val, idx, keys, parsed, failed) ==
  [st |-> st, val |-> val, idx |-> idx, keys |-> keys, parsed |-> parsed,
   failed |-> failed]
Returned(val) == DecRet("ok", val, 0, <<>>, FALSE, {})
Raised(exc) == DecRet(exc, NoValue, 0, <<>>, FALSE, {})
NoRet == DecRet("-", NoValue, 0, <<>>, FALSE, {})

\* one iteration of a decoder loop: the new cursor and the decoded element
Step(st, idx, val, failed) == [st |-> st, idx |-> idx, val |-> val, failed |-> failed]

\* decode_int once int(inp[1: -1]) has ended with p (lines 45-56)
IntChecks(inp_, p) ==
  IF ~p.ok THEN Raised("DecodeError")
  ELSE IF ~InRange(inp_, 1) THEN Raised("IndexError")
  ELSE IF p.n = 0 /\ At(inp_, 1) = char_hyphen THEN Raised("DecodeError")
  ELSE IF p.n # 0 /\ At(inp_, 1) = char_hyphen /\ ~InRange(inp_, 2)
  THEN Raised("IndexError")
  ELSE IF p.n # 0 /\ ((At(inp_, 1) = char_hyphen /\ At(inp_, 2) = char_0)
                      \/ At(inp_, 1) = char_0)
  THEN Raised("DecodeError")
  ELSE Returned(IntVal(p.n))

DecodeInt(inp_) ==
  IF ~InRange(inp_, 0) THEN Raised("IndexError")
  ELSE IF At(inp_, 0) # char_i \/ At(inp_, Len(inp_) - 1) # char_e
  THEN Raised("DecodeError")
  ELSE IntChecks(inp_, PyInt(Slice(inp_, 1, -1)))

\* decode_string_bytes once int(inp[:colon_pos]) has ended with p (lines 72-82)
StringChecks(inp_, colon_pos, p) ==
  IF ~p.ok \/ p.n <= 0 THEN Raised("DecodeError")
  ELSE IF p.n # Len(SliceFrom(inp_, colon_pos + 1)) THEN Raised("DecodeError")
  ELSE Returned(BytesVal(SliceFrom(inp_, colon_pos + 1)))

DecodeStringBytes(inp_) ==
  IF Find(inp_, char_colon, 0) = -1 THEN Raised("DecodeError")
  ELSE StringChecks(inp_, Find(inp_, char_colon, 0),
                    PyInt(Slice(inp_, 0, Find(inp_, char_colon, 0))))

\* sorted(keys): insertion of each key after the keys not greater than it
RECURSIVE InsertKey(_, _)
InsertKey(sortedKeys, key) ==
  IF sortedKeys = <<>> THEN <<key>>
  ELSE IF BytesLess(key, Head(sortedKeys)) THEN <<key>> \o sortedKeys
  ELSE <<Head(sortedKeys)>> \o InsertKey(Tail(sortedKeys), key)

RECURSIVE Sorted(_)
Sorted(keys) ==
  IF keys = <<>> THEN <<>>
  ELSE InsertKey(Sorted(SubSeq(keys, 1, Len(keys) - 1)), keys[Len(keys)])

\* results[key] = value on an OrderedDict: a key already there keeps its place
SetItem(d, key, value) ==
  IF \E k \in 1..Len(d.ks) : d.ks[k] = key
  THEN LET k == CHOOSE j \in 1..Len(d.ks) : d.ks[j] = key
       IN  [d EXCEPT !.xs[k] = value]
  ELSE [d EXCEPT !.ks = Append(d.ks, key), !.xs = Append(d.xs, value)]

RECURSIVE DecodeList(_), DecodeDictionary(_), RetryLoop(_, _, _, _, _),
          ListLoop(_, _, _, _), DictLoop(_, _, _, _, _)

\* In the operators below the result of a nested call is handed on as the
\* parameter r (or s, k, v) of the operator that goes on from it.

\* the nested decoder a retry loop calls
NestedCall(kind, inp_) ==
  IF kind = "list" THEN DecodeList(inp_) ELSE DecodeDictionary(inp_)

\* while ending_e != -1: try the nested decoder on inp[idx: ending_e + 1];
\* on DecodeError move ending_e to the next 'e' and try again.
RetryResult(inp_, idx, ending_e, kind, failed, r) ==
  IF r.st = "ok" THEN Step("ok", ending_e + 1, r.val, failed \cup r.failed)
  ELSE IF r.st = "DecodeError"
  THEN LET next_e == Find(inp_, char_e, ending_e + 1) IN
       IF next_e = -1 THEN Step("DecodeError", idx, NoValue, failed \cup {kind})
       ELSE RetryLoop(inp_, idx, next_e, kind, failed \cup {kind})
  ELSE Step(r.st, idx, NoValue, failed)

RetryLoop(inp_, idx, ending_e, kind, failed) ==
  RetryResult(inp_, idx, ending_e, kind, failed,
              NestedCall(kind, Slice(inp_, idx, ending_e + 1)))

\* a list or dictionary element: find the first 'e', then the retry loop
NestedRetry(inp_, idx, kind) ==
  LET ending_e == Find(inp_, char_e, idx + 1) IN
  IF ending_e = -1 THEN Step("DecodeError", idx, NoValue, {})
  ELSE RetryLoop(inp_, idx, ending_e, kind, {})

\* What a try/except DecodeError around one nested call makes of its result.
\* decode_list moves the cursor inside the try, after the call; decode_dictionary
\* moves it before the try (early), so there it has moved when the call raises.
TryOnce(r, newIdx, idx, early, kind) ==
  IF r.st = "ok" THEN Step("ok", newIdx, r.val, r.failed)
  ELSE IF r.st = "DecodeError"
  THEN Step("DecodeError", IF early THEN newIdx ELSE idx, NoValue, {kind})
  ELSE Step(r.st, IF early THEN newIdx ELSE idx, NoValue, {})

\* NestedInt with the DecodeError of decode_int caught and dropped: the loop
\* goes on behind the integer
NestedIntDropped(inp_, idx, early) ==
  LET ending_e == Find(inp_, char_e, idx + 1)
      r        == DecodeInt(Slice(inp_, idx, ending_e + 1))
  IN  IF r.st = "DecodeError" THEN Step("ok", ending_e + 1, NoValue, {"int"})
      ELSE IF r.st = "ok" THEN Step("ok", ending_e + 1, r.val, {})
      ELSE Step(r.st, IF early THEN ending_e + 1 ELSE idx, NoValue, {})

\* an integer element: up to the first 'e' after the cursor
NestedInt(inp_, idx, early) ==
  LET ending_e == Find(inp_, char_e, idx + 1) IN
  TryOnce(DecodeInt(Slice(inp_, idx, ending_e + 1)), ending_e + 1, idx, early, "int")

\* a byte string element (or a dictionary key): the length prefix says where it ends
StringOfLength(inp_, idx, early, kind, colon, p) ==
  IF ~p.ok \/ p.n <= 0 THEN Step("DecodeError", idx, NoValue, {})
  ELSE TryOnce(DecodeStringBytes(Slice(inp_, idx, colon + p.n + 1)),
               colon + p.n + 1, idx, early, kind)

NestedString(inp_, idx, early, kind) ==
  LET colon == Find(inp_, char_colon, idx + 1)
  IN  StringOfLength(inp_, idx, early, kind, colon, PyInt(Slice(inp_, idx, colon)))

\* a list value of a dictionary: one attempt, up to the first 'e'
NestedListOnce(inp_, idx) ==
  LET ending_e == Find(inp_, char_e, idx + 1) IN
  TryOnce(DecodeList(Slice(inp_, idx, ending_e + 1)), ending_e + 1, idx, TRUE,
          "list_once")

\* the body of decode_list's while loop
ListStep(inp_, idx) ==
  IF At(inp_, idx) = char_i THEN NestedInt(inp_, idx, FALSE)
  ELSE IF At(inp_, idx) = char_l THEN NestedRetry(inp_, idx, "list")
  ELSE IF At(inp_, idx) = char_d THEN NestedRetry(inp_, idx, "dict")
  ELSE IF char_0 <= At(inp_, idx) /\ At(inp_, idx) <= char_9
  THEN NestedString(inp_, idx, FALSE, "bytes")
  ELSE Step("DecodeError", idx, NoValue, {})

\* results.append(result), or the exception leaves the call
ListAppend(inp_, idx, results, failed, s) ==
  IF s.st = "ok"
  THEN ListLoop(inp_, s.idx, Append(results, s.val), failed \cup s.failed)
  ELSE DecRet(s.st, NoValue, s.idx, <<>>, FALSE, failed \cup s.failed)

ListLoop(inp_, idx, results, failed) ==
  IF ~(idx < Len(inp_) - 1)
  THEN DecRet("ok", ListVal(results), idx, <<>>, TRUE, failed)
  ELSE ListAppend(inp_, idx, results, failed, ListStep(inp_, idx))

DecodeList(inp_) ==
  IF ~InRange(inp_, 0) THEN Raised("IndexError")
  ELSE IF At(inp_, 0) # char_l \/ At(inp_, Len(inp_) - 1) # char_e
  THEN Raised("DecodeError")
  ELSE ListLoop(inp_, 1, <<>>, {})

\* the key of a dictionary entry
DictKey(inp_, idx) ==
  IF ~(char_0 <= At(inp_, idx) /\ At(inp_, idx) <= char_9)
  THEN Step("DecodeError", idx, NoValue, {})
  ELSE NestedString(inp_, idx, TRUE, "key")

\* the value of a dictionary entry, the cursor being behind its key
DictValue(inp_, idx) ==
  IF ~InRange(inp_, idx) THEN Step("IndexError", idx, NoValue, {})
  ELSE IF At(inp_, idx) = char_i THEN NestedInt(inp_, idx, TRUE)
  ELSE IF At(inp_, idx) = char_l THEN NestedListOnce(inp_, idx)
  ELSE IF At(inp_, idx) = char_d THEN NestedRetry(inp_, idx, "dict")
  ELSE IF char_0 <= At(inp_, idx) /\ At(inp_, idx) <= char_9
  THEN NestedString(inp_, idx, TRUE, "bytes")
  ELSE Step("DecodeError", idx, NoValue, {})

\* KeysSorted asking for strictly ascending keys
KeysStrictlySorted(keys) ==
  \A k \in 1..(Len(keys) - 1) : BytesLess(keys[k], keys[k + 1])

\* if keys != sorted(keys): raise DecodeError
KeysSorted(keys) == keys = Sorted(keys)

\* results[key] = value; keys.append(key), or the exception leaves the call
DictStore(inp_, results, keys, failed, k, v) ==
  IF v.st # "ok"
  THEN DecRet(v.st, NoValue, v.idx, keys, FALSE, failed \cup v.failed)
  ELSE DictLoop(inp_, v.idx, SetItem(results, k.val, v.val),
                Append(keys, k.val.s), failed \cup v.failed)

DictEntry(inp_, idx, results, keys, failed, k) ==
  IF k.st # "ok" THEN DecRet(k.st, NoValue, k.idx, keys, FALSE, failed \cup k.failed)
  ELSE DictStore(inp_, results, keys, failed, k, DictValue(inp_, k.idx))

DictLoop(inp_, idx, results, keys, failed) ==
  IF ~(idx < Len(inp_) - 2)
  THEN IF KeysSorted(keys)
       THEN DecRet("ok", results, idx, keys, TRUE, failed)
       ELSE DecRet("DecodeError", NoValue, idx, keys, TRUE, failed)
  ELSE DictEntry(inp_, idx, results, keys, failed, DictKey(inp_, idx))

DecodeDictionary(inp_) ==
  IF ~InRange(inp_, 0) THEN Raised("IndexError")
  ELSE IF At(inp_, 0) # char_d \/ At(inp_, Len(inp_) - 1) # char_e
  THEN Raised("DecodeError")
  ELSE DictLoop(inp_, 1, OrderedDictVal(<<>>, <<>>), <<>>, {})

(***************************************************************************)
(* The encoder.  A call ends with st ("ok" or the exception's class), the  *)
(* bytes it returns, and out, what it printed to standard output before it *)
(* ended.                                                                  *)
(***************************************************************************)
EncRet(st, bytes, out) == [st |-> st, bytes |-> bytes, out |-> out]
NoEnc == EncRet("-", <<>>, <<>>)

\* the decimal digits of a natural number
RECURSIVE Digits(_)
Digits(n) == IF n < 10 THEN <<48 + n>> ELSE Digits(n \div 10) \o <<48 + (n % 10)>>

\* f'{n}'.encode(encoding): the decimal text of an int
IntToDec(n) == IF n < 0 THEN <<char_hyphen>> \o Digits(0 - n) ELSE Digits(n)

\* one code point in UTF-8
Utf8(c) ==
  IF c < 128 THEN <<c>>
  ELSE IF c < 2048 THEN <<192 + (c \div 64), 128 + (c % 64)>>
  ELSE <<224 + (c \div 4096), 128 + ((c \div 64) % 64), 128 + (c % 64)>>

\* str.encode('UTF-8')
RECURSIVE StrEncode(_)
StrEncode(s) == IF s = <<>> THEN <<>> ELSE Utf8(Head(s)) \o StrEncode(Tail(s))

EncodeInt(o) == EncRet("ok", <<char_i>> \o IntToDec(o.n) \o <<char_e>>, <<>>)

EncodeString(o) ==
  LET b == IF o.k = "str" THEN StrEncode(o.s) ELSE o.s
  IN  EncRet("ok", IntToDec(Len(b)) \o <<char_colon>> \o b, <<>>)

\* the types the two type checks list, which are also the keys of self.ops
SupportedTypes == {"list", "int", "dict", "str", "bytes"}

\* byte_key_dict: the keys encoded, or AttributeError at the first key
\* without an encode method (lines 59-61)
RECURSIVE ByteKeyDict(_, _, _)
ByteKeyDict(ks, xs, acc) ==
  IF ks = <<>> THEN [st |-> "ok", d |-> acc]
  ELSE IF Head(ks).k # "str" THEN [st |-> "AttributeError", d |-> acc]
  ELSE ByteKeyDict(Tail(ks), Tail(xs),
                   SetItem(acc, BytesVal(StrEncode(Head(ks).s)), Head(xs)))

\* sorted(byte_key_dict.items(), key=lambda x: x[0]): the place of each item
RECURSIVE InsertItem(_, _)
InsertItem(items, item) ==
  IF items = <<>> THEN <<item>>
  ELSE IF BytesLess(item[1].s, Head(items)[1].s) THEN <<item>> \o items
  ELSE <<Head(items)>> \o InsertItem(Tail(items), item)

RECURSIVE SortItems(_)
SortItems(items) ==
  IF items = <<>> THEN <<>>
  ELSE InsertItem(SortItems(SubSeq(items, 1, Len(items) - 1)), items[Len(items)])

Items(d) == [k \in 1..Len(d.ks) |-> <<d.ks[k], d.xs[k]>>]

RECURSIVE Ops(_), EncodeDictLoop(_, _, _), EncodeListLoop(_, _, _)

\* for key, value in sorted_byte_key_dict.items(): res += ... (lines 66-67)
\* In the operators below r is the result of the nested call self.ops[...](...).
DictAdd(items, res, out, r) ==
  IF r.st # "ok" THEN EncRet(r.st, <<>>, out \o r.out)
  ELSE EncodeDictLoop(Tail(items),
                      res \o EncodeString(Head(items)[1]).bytes \o r.bytes,
                      out \o r.out)

EncodeDictLoop(items, res, out) ==
  IF items = <<>> THEN EncRet("ok", res \o <<char_e>>, out)
  ELSE IF Head(items)[2].k \notin SupportedTypes THEN EncRet("KeyError", <<>>, out)
  ELSE DictAdd(items, res, out, Ops(Head(items)[2]))

\* SortedByteKeyDict without the sort: the items in insertion order
UnsortedByteKeyDict(d) == Items(d)

\* the items of byte_key_dict in sorted order
SortedByteKeyDict(d) == SortItems(Items(d))

EncodeSorted(bk) ==
  IF bk.st # "ok" THEN EncRet(bk.st, <<>>, <<>>)
  ELSE EncodeDictLoop(SortedByteKeyDict(bk.d), <<char_d>>, <<>>)

EncodeDict(o) == EncodeSorted(ByteKeyDict(o.ks, o.xs, DictVal(<<>>, <<>>)))

ListAdd(elements, res, printed, r) ==
  IF r.st # "ok" THEN EncRet(r.st, <<>>, printed \o r.out)
  ELSE EncodeListLoop(Tail(elements), res \o r.bytes, printed \o r.out)

\* print(element): one more line on standard output
PrintElement(out, element) == Append(out, element)

\* for element in obj: print(element); type check; res += op(element)
EncodeListLoop(elements, res, out) ==
  IF elements = <<>> THEN EncRet("ok", res \o <<char_e>>, out)
  ELSE IF Head(elements).k \notin SupportedTypes
  THEN EncRet("EncodeError", <<>>, PrintElement(out, Head(elements)))
  ELSE ListAdd(elements, res, PrintElement(out, Head(elements)), Ops(Head(elements)))

EncodeList(o) == EncodeListLoop(o.xs, <<char_l>>, <<>>)

\* self.ops[type(value)](value)
Ops(o) ==
  IF o.k = "int" THEN EncodeInt(o)
  ELSE IF o.k \in {"str", "bytes"} THEN EncodeString(o)
  ELSE IF o.k = "dict" THEN EncodeDict(o)
  ELSE EncodeList(o)

Encode(o) ==
  IF o.k \notin SupportedTypes THEN EncRet("EncodeError", <<>>, <<>>)
  ELSE Ops(o)

(***************************************************************************)
(* The inputs a caller hands over: byte buffers for the decoder, values    *)
(* for the encoder.                                                        *)
(***************************************************************************)
MaxLen == 4
MaxDigits == 3
MaxTokens == 4
MaxElems == 2
MaxDepth == 2

SeqsUpTo(S, n) == UNION {[1..m -> S] : m \in 0..n}

RECURSIVE Concat(_)
Concat(ss) == IF ss = <<>> THEN <<>> ELSE Head(ss) \o Concat(Tail(ss))

\* i l d e 0 1 2 : - a
Alphabet == {char_i, char_l, char_d, char_e, char_0, 49, 50, char_colon,
             char_hyphen, 97}
RawBuffers == SeqsUpTo(Alphabet, MaxLen)

\* - 0 1 + _ between i and e
IntAlphabet == {char_hyphen, char_0, 49, 43, 95}
IntBuffers == {<<char_i>> \o b \o <<char_e>> : b \in SeqsUpTo(IntAlphabet, MaxDigits)}

\* i1e  1:a  1:b  1:e  2:ea  l  d  e
Tokens == {<<char_i, 49, char_e>>, <<49, char_colon, 97>>, <<49, char_colon, 98>>,
           <<49, char_colon, char_e>>, <<50, char_colon, char_e, 97>>,
           <<char_l>>, <<char_d>>, <<char_e>>}
TokenBuffers ==
  {<<open>> \o Concat(ts) \o <<char_e>> :
     open \in {char_l, char_d}, ts \in SeqsUpTo(Tokens, MaxTokens)}

Buffers == RawBuffers \cup IntBuffers \cup TokenBuffers

\* 0, 10, -7, b'', b'e', 'a', 'é', None
Atoms == {IntVal(0), IntVal(10), IntVal(0 - 7), BytesVal(<<>>), BytesVal(<<char_e>>),
          StrVal(<<97>>), StrVal(<<233>>), NoneVal}
\* the keys 'b', 'a', 'é' and b'a'
Keys == {StrVal(<<98>>), StrVal(<<97>>), StrVal(<<233>>), BytesVal(<<97>>)}
\* 1, b'ab', None
DictAtoms == {IntVal(1), BytesVal(<<97, 98>>), NoneVal}

Lists(S) == {ListVal(xs) : xs \in SeqsUpTo(S, MaxElems)}
Dicts(S) ==
  {DictVal(ks, xs) : <<ks, xs>> \in
     UNION {{<<a, b>> \in [1..m -> Keys] \X [1..m -> S] :
               \A i, j \in 1..m : i # j => a[i] # a[j]} : m \in 0..MaxElems}}

\* every value of T, and each of them inside one more list or dictionary
RECURSIVE Nest(_, _)
Nest(S, d) ==
  IF d = 0 THEN S
  ELSE LET T == Nest(S, d - 1)
       IN  T \cup {ListVal(<<v>>) : v \in T}
             \cup {DictVal(<<StrVal(<<97>>)>>, <<v>>) : v \in T}

Values == Nest(Atoms \cup Lists(Atoms) \cup Dicts(DictAtoms), MaxDepth)

(***************************************************************************)
(* The calls.  A caller holds a buffer or a value (Init) and makes one     *)
(* call; it may then hand the result to the other side: a decoded value to *)
(* encode, encoded bytes to the decoder method their first byte selects.   *)
(***************************************************************************)
Init ==
  /\ pc = "start"
  /\ op = "-"
  /\ dec = NoRet
  /\ enc = NoEnc
  /\ stdout = <<>>
  /\ encoding = "UTF-8"
  /\ \/ inp \in Buffers /\ obj = NoValue
     \/ inp = <<>> /\ obj \in Values

\* what the caller holds after decoder method name ended with r
Decoded(name, r) ==
  /\ op' = name
  /\ dec' = r
  /\ pc' = "decoded"
  /\ UNCHANGED <<inp, obj, enc, stdout, encoding>>

CallDecodeInt ==
  /\ pc = "start"
  /\ obj = NoValue
  /\ Decoded("decode_int", DecodeInt(inp))

CallDecodeStringBytes ==
  /\ pc = "start"
  /\ obj = NoValue
  /\ Decoded("decode_string_bytes", DecodeStringBytes(inp))

CallDecodeList ==
  /\ pc = "start"
  /\ obj = NoValue
  /\ Decoded("decode_list", DecodeList(inp))

CallDecodeDictionary ==
  /\ pc = "start"
  /\ obj = NoValue
  /\ Decoded("decode_dictionary", DecodeDictionary(inp))

\* what the caller and standard output hold after encode ended with r
Encoded(r) ==
  /\ enc' = EncRet(r.st, r.bytes, <<>>)
  /\ stdout' = stdout \o r.out

CallEncode ==
  /\ pc = "start"
  /\ obj # NoValue
  /\ Encoded(Encode(obj))
  /\ op' = "encode"
  /\ pc' = "encoded"
  /\ UNCHANGED <<inp, obj, dec, encoding>>

\* encode(decode(b))
EncodeDecoded ==
  /\ pc = "decoded"
  /\ dec.st = "ok"
  /\ obj' = dec.val
  /\ Encoded(Encode(dec.val))
  /\ pc' = "reencoded"
  /\ UNCHANGED <<op, inp, dec, encoding>>

\* the decoder method for a buffer's first byte
OpFor(b) ==
  IF b = <<>> THEN "-"
  ELSE IF b[1] = char_i THEN "decode_int"
  ELSE IF b[1] = char_l THEN "decode_list"
  ELSE IF b[1] = char_d THEN "decode_dictionary"
  ELSE IF char_0 <= b[1] /\ b[1] <= char_9 THEN "decode_string_bytes"
  ELSE "-"

Dispatch(name, b) ==
  IF name = "decode_int" THEN DecodeInt(b)
  ELSE IF name = "decode_list" THEN DecodeList(b)
  ELSE IF name = "decode_dictionary" THEN DecodeDictionary(b)
  ELSE DecodeStringBytes(b)

\* decode(encode(v))
DecodeEncoded ==
  /\ pc = "encoded"
  /\ enc.st = "ok"
  /\ inp' = enc.bytes
  /\ op' = OpFor(enc.bytes)
  /\ dec' = Dispatch(OpFor(enc.bytes), enc.bytes)
  /\ pc' = "redecoded"
  /\ UNCHANGED <<obj, enc, stdout, encoding>>

Next ==
  \/ CallDecodeInt
  \/ CallDecodeStringBytes
  \/ CallDecodeList
  \/ CallDecodeDictionary
  \/ CallEncode
  \/ EncodeDecoded
  \/ DecodeEncoded

Spec == Init /\ [][Next]_vars

(***************************************************************************)
(* What the properties are stated with.  None of this is the program: it   *)
(* is BEP-3's format and Python's equality, written down independently of  *)
(* the operators above.                                                    *)
(***************************************************************************)

\* a < b in raw-byte lexicographic order
LexLess(a, b) ==
  \E k \in 1..Len(b) :
    /\ \A j \in 1..(k - 1) : j <= Len(a) /\ a[j] = b[j]
    /\ (k > Len(a) \/ a[k] < b[k])

\* some key is smaller than the key just before it
HasDescent(keys) == \E k \in 1..(Len(keys) - 1) : LexLess(keys[k + 1], keys[k])

\* a digit run without a leading zero, the single digit 0 apart
PlainDigits(s) ==
  /\ s # <<>>
  /\ \A k \in 1..Len(s) : s[k] \in 48..57
  /\ (Len(s) > 1 => s[1] # 48)

RECURSIVE DecimalValue(_)
DecimalValue(s) ==
  IF s = <<>> THEN 0 ELSE 10 * DecimalValue(SubSeq(s, 1, Len(s) - 1)) + (s[Len(s)] - 48)

\* the text between i and e of a canonical integer: -0 is not one
CanonicalIntBody(s) ==
  IF s # <<>> /\ s[1] = 45 THEN PlainDigits(Tail(s)) /\ Tail(s) # <<48>>
  ELSE PlainDigits(s)

\* i, an optional -, digits, e
CanonicalInt(b) ==
  /\ Len(b) >= 3
  /\ b[1] = 105
  /\ b[Len(b)] = 101
  /\ CanonicalIntBody(SubSeq(b, 2, Len(b) - 1))

CanonicalIntValue(b) ==
  LET s == SubSeq(b, 2, Len(b) - 1)
  IN  IF s[1] = 45 THEN 0 - DecimalValue(Tail(s)) ELSE DecimalValue(s)

\* the first position >= i of b holding c, or 0
FirstAt(b, c, i) ==
  IF \E k \in i..Len(b) : b[k] = c
  THEN CHOOSE k \in i..Len(b) : b[k] = c /\ \A j \in i..(k - 1) : b[j] # c
  ELSE 0

\* The position behind the canonical value that starts at position i of b
\* (1-based), found structurally; 0 when there is none.
RECURSIVE RefEnd(_, _), RefItemsEnd(_, _), RefEntriesEnd(_, _, _)

RefIntEnd(b, i) ==
  LET e == FirstAt(b, 101, i + 1)
  IN  IF e # 0 /\ CanonicalIntBody(SubSeq(b, i + 1, e - 1)) THEN e + 1 ELSE 0

RefStrEnd(b, i) ==
  LET c == FirstAt(b, 58, i)
  IN  IF c = 0 \/ ~PlainDigits(SubSeq(b, i, c - 1)) THEN 0
      ELSE IF c + DecimalValue(SubSeq(b, i, c - 1)) > Len(b) THEN 0
      ELSE c + DecimalValue(SubSeq(b, i, c - 1)) + 1

\* the bytes of the byte string at position i, which ends before position j
RefStrBytes(b, i, j) == SubSeq(b, FirstAt(b, 58, i) + 1, j - 1)

RefEnd(b, i) ==
  IF i > Len(b) THEN 0
  ELSE IF b[i] = 105 THEN RefIntEnd(b, i)
  ELSE IF b[i] \in 48..57 THEN RefStrEnd(b, i)
  ELSE IF b[i] = 108 THEN RefItemsEnd(b, i + 1)
  ELSE IF b[i] = 100 THEN RefEntriesEnd(b, i + 1, <<>>)
  ELSE 0

RefItemsEnd(b, i) ==
  IF i > Len(b) THEN 0
  ELSE IF b[i] = 101 THEN i + 1
  ELSE IF RefEnd(b, i) = 0 THEN 0
  ELSE RefItemsEnd(b, RefEnd(b, i))

\* keys: the keys read so far, each greater than the one before
RefEntriesEnd(b, i, keys) ==
  IF i > Len(b) THEN 0
  ELSE IF b[i] = 101 THEN i + 1
  ELSE IF b[i] \notin 48..57 \/ RefStrEnd(b, i) = 0 THEN 0
  ELSE LET v   == RefStrEnd(b, i)
           key == RefStrBytes(b, i, v)
       IN  IF keys # <<>> /\ ~LexLess(keys[Len(keys)], key) THEN 0
           ELSE IF RefEnd(b, v) = 0 THEN 0
           ELSE RefEntriesEnd(b, RefEnd(b, v), Append(keys, key))

\* b is one canonical-form Bencode value, whole
IsCanonical(b) == b # <<>> /\ RefEnd(b, 1) = Len(b) + 1

\* the keys of the dictionary b, in the order they stand in b
RECURSIVE RefKeys(_, _, _)
RefKeys(b, i, keys) ==
  IF i > Len(b) \/ b[i] = 101 \/ RefStrEnd(b, i) = 0 THEN keys
  ELSE LET v == RefStrEnd(b, i)
       IN  IF RefEnd(b, v) = 0 THEN keys
           ELSE RefKeys(b, RefEnd(b, v), Append(keys, RefStrBytes(b, i, v)))

\* a value of the data model: integers, byte strings, lists, and
\* dictionaries with distinct byte-string keys
RECURSIVE IsValue(_)
IsValue(v) ==
  \/ v.k \in {"int", "bytes"}
  \/ v.k = "list" /\ \A k \in 1..Len(v.xs) : IsValue(v.xs[k])
  \/ /\ v.k = "dict"
     /\ \A k \in 1..Len(v.ks) : v.ks[k].k = "bytes" /\ IsValue(v.xs[k])
     /\ \A i, j \in 1..Len(v.ks) : i # j => v.ks[i] # v.ks[j]

\* Python's a == b
RECURSIVE PyEq(_, _)
PyEq(a, b) ==
  IF a.k \in {"int", "bytes", "str", "NoneType"} THEN a = b
  ELSE IF a.k = "list"
  THEN b.k = "list" /\ Len(a.xs) = Len(b.xs)
       /\ \A k \in 1..Len(a.xs) : PyEq(a.xs[k], b.xs[k])
  ELSE IF a.k = "OrderedDict" /\ b.k = "OrderedDict"
  THEN a.ks = b.ks /\ \A k \in 1..Len(a.xs) : PyEq(a.xs[k], b.xs[k])
  ELSE /\ b.k \in {"dict", "OrderedDict"}
       /\ Len(a.ks) = Len(b.ks)
       /\ \A i \in 1..Len(a.ks) :
            \E j \in 1..Len(b.ks) : a.ks[i] = b.ks[j] /\ PyEq(a.xs[i], b.xs[j])

\* a value of a type outside int, str, bytes, list, dict somewhere in the
\* tree: at the top, as a list element or as a dictionary value
RECURSIVE HasUnsupported(_)
HasUnsupported(v) ==
  \/ v.k \notin {"int", "str", "bytes", "list", "dict"}
  \/ v.k \in {"list", "dict"} /\ \E k \in 1..Len(v.xs) : HasUnsupported(v.xs[k])

\* the dictionary d with its entries inserted in the order f
Reordered(d, f) ==
  DictVal([k \in 1..Len(d.ks) |-> d.ks[f[k]]], [k \in 1..Len(d.xs) |-> d.xs[f[k]]])

Orders(n) == {f \in [1..n -> 1..n] : \A i, j \in 1..n : i # j => f[i] # f[j]}

DecoderReturned == pc \in {"decoded", "redecoded"}
ListOrDict == op \in {"decode_list", "decode_dictionary"}

(***************************************************************************)
(* Properties.                                                             *)
(***************************************************************************)

\* C1: round trip.  For every value v of the data model (integers, byte
\* strings, the empty one included, lists and dictionaries, at any depth),
\* the decoder method selected by the first byte of encode(v) returns a
\* value equal to v.
RoundTrip ==
  (pc = "redecoded" /\ IsValue(obj)) => (dec.st = "ok" /\ PyEq(dec.val, obj))

\* C2: canonical re-encoding.  For every buffer b in canonical form, decoding
\* b with the method for its first byte and encoding the decoded value
\* returns exactly b.
CanonicalReencoding ==
  (pc = "reencoded" /\ op = OpFor(inp) /\ IsCanonical(inp))
    => (enc.st = "ok" /\ enc.bytes = inp)

\* C3: every failing decode is a DecodeError.  A decoder call on any buffer
\* returns a value or raises DecodeError, and nothing else.
OnlyDecodeError == DecoderReturned => dec.st \in {"ok", "DecodeError"}

\* C4: integer canonicality.  decode_int returns n only for i, an optional
\* single -, digits without a leading zero (the single digit 0 apart, and
\* no -0), e; for every other input it raises DecodeError.
IntegerCanonicality ==
  (pc = "decoded" /\ op = "decode_int")
    => IF CanonicalInt(inp)
       THEN dec.st = "ok" /\ dec.val = IntVal(CanonicalIntValue(inp))
       ELSE dec.st = "DecodeError"

\* C5: dictionary key order.  When all keys and values of the input of
\* decode_dictionary parse, the call raises DecodeError if some key is
\* smaller, in raw-byte lexicographic order, than the key parsed just
\* before it, and returns if the keys in parse order never decrease.
DictionaryKeyOrder ==
  (DecoderReturned /\ op = "decode_dictionary" /\ dec.parsed)
    => dec.st = (IF HasDescent(dec.keys) THEN "DecodeError" ELSE "ok")

\* C5, its case: two keys parsed, the second smaller, and the call raised;
DictionaryKeyOrderWitness ==
  /\ pc = "decoded" /\ op = "decode_dictionary" /\ dec.parsed
  /\ Len(dec.keys) >= 2 /\ HasDescent(dec.keys)
  /\ dec.st = "DecodeError"

\* C6: sorting invariance.  encode of a dictionary with distinct keys ends
\* the same way, with the same bytes, in whatever order the entries were
\* inserted, and in the bytes the keys stand in ascending raw-byte order.
SortingInvariance ==
  (pc = "encoded" /\ obj.k = "dict")
    => /\ \A f \in Orders(Len(obj.ks)) :
            /\ Encode(Reordered(obj, f)).st = enc.st
            /\ Encode(Reordered(obj, f)).bytes = enc.bytes
       /\ enc.st = "ok" => ~HasDescent(RefKeys(enc.bytes, 2, <<>>))
       /\ enc.st = "ok" => Len(RefKeys(enc.bytes, 2, <<>>)) = Len(obj.ks)

\* C6, its case: a dictionary whose first inserted key is greater than its
\* second one has been encoded.
SortingInvarianceWitness ==
  /\ pc = "encoded" /\ obj.k = "dict" /\ enc.st = "ok"
  /\ Len(obj.ks) >= 2
  /\ LexLess(obj.ks[2].s, obj.ks[1].s)
  /\ Len(RefKeys(enc.bytes, 2, <<>>)) = Len(obj.ks)

\* C7: unsupported types.  encode raises EncodeError, and nothing else, when
\* the value tree holds a value of an unsupported type, and returns for
\* every tree of supported types.
UnsupportedTypes ==
  pc = "encoded" => enc.st = (IF HasUnsupported(obj) THEN "EncodeError" ELSE "ok")

\* C8: encoder purity.  A call of encode leaves its argument and the
\* encoder's state as they were and writes nothing to an output stream.
EncoderPurity ==
  [][CallEncode => (stdout' = stdout /\ obj' = obj /\ encoding' = encoding)]_vars

ExactConsumption ==
  (DecoderReturned /\ ListOrDict /\ dec.st = "ok") => dec.idx = Len(inp) - 1

====
